---------------------------- MODULE Spec2Model ----------------------------
(***************************************************************************)
(* A model of kira's control/audio boundary.                               *)
(*                                                                         *)
(*  - The command ring between a sound handle (control thread) and the     *)
(*    audio callback: the handle mutators of StaticSoundHandle push onto   *)
(*    the ring; the output-stream callback of AudioManager::new calls      *)
(*    Backend::process once per frame.                                     *)
(*  - The sequence pool (Sequences) of the conductor backend: run_command  *)
(*    and update, with the IndexMap of live sequences and the ring that    *)
(*    returns finished sequences to the control thread.                    *)
(*                                                                         *)
(*  - One instance of a sound with its playback states, and the           *)
(*    metronome with its interval events.                                  *)
(*                                                                         *)
(* Times and durations are whole seconds; one update tick is one second.   *)
(***************************************************************************)
EXTENDS Integers, Sequences, FiniteSets, TLC

VARIABLES
    \* ---- command ring (control thread -> audio thread)
    ring,               \* undrained commands, oldest first
    applied,            \* audio side: payloads of the commands applied, in order
    pushed,             \* history: payloads of the commands whose push returned Ok
    calls,              \* number of handle mutator calls made so far
    lastCall,           \* the last mutator call: its command and its result
    framesLeft,         \* frames of the current callback buffer still to write
    framesDone,         \* frames of the current callback buffer written
    pushedAtBlockStart, \* Len(pushed) when the current callback began
    appliedAtFirstFrame,\* Len(applied) when the block's first frame was produced
    \* ---- sequence pool (audio thread) and its surroundings
    sequences,          \* Sequences::sequences, the IndexMap of live sequences: its
                        \* entries [id, seq] in the map's order
    unused,             \* the ring returning finished sequences to the control thread
    tempo,              \* metronome.settings.tempo, in beats per minute
    out,                \* the commands Sequences::update returned, until the
                        \* backend has routed them and runs its next command
    started,            \* number of sequences handed to the pool so far
    popped,             \* history: sequences the control thread took from the ring
    dropped,            \* history: sequences dropped on the audio thread
    \* ---- the frames the callback writes
    channels,           \* config.channels, the samples of one frame
    frame,              \* the frame of the buffer written last; a sample that was
                        \* not written is Untouched
    lastOut,            \* what backend.process() returned last: <<left, right>>
    \* ---- one instance of a sound (audio thread)
    instance,           \* its playback state, fade, position and parameters
    instance_out,       \* the frame it contributed last: <<left, right>>
    \* ---- the metronome (audio thread)
    metronome,          \* running, beat position and the time ticked so far
    interval_events     \* the interval events emitted so far, oldest first

ringVars == <<ring, applied, pushed, calls, lastCall, framesLeft, framesDone,
              pushedAtBlockStart, appliedAtFirstFrame>>

seqVars == <<sequences, unused, tempo, out, started, popped, dropped>>

frameVars == <<channels, frame, lastOut>>

instVars == <<instance, instance_out>>

metroVars == <<metronome, interval_events>>

otherVars == <<frameVars, instVars, metroVars>>

vars == <<ringVars, seqVars, otherVars>>

-----------------------------------------------------------------------------
(* Bounds of the model *)

\* AudioManagerSettings::command_capacity, the capacity of the command ring
command_capacity == 2

\* frames in one callback buffer
MaxFrames == 2

\* the most channels of the output device
MaxChannels == 3

\* frames a fade tween takes
FadeSteps == 2

\* frames of the sound the instance plays
SoundFrames == 3

\* ticks of the metronome in one run, 1/8 second each
MaxTicks == 8

\* handle mutator calls in one run: enough to fill the ring, overflow, and
\* push again after a drain
MaxCalls == command_capacity + 2

\* capacity of the ring that returns finished sequences
unused_capacity == 1

\* sequences handed to the pool in one run
MaxSequences == 2

\* update ticks in one run
MaxTime == 6

\* LoopSound commands among the sequences started in one run of the loops
MaxLoops == 1

\* sequences handed to the pool, and the ids they are started under, in one run
\* of a pool of three
MaxOrdered == 3

-----------------------------------------------------------------------------
(* The command ring *)

Mutators == {"SetVolume", "SetPlaybackRate", "SetPanning", "Pause", "Resume",
             "Stop", "SeekTo", "SeekBy"}

\* A command: the variant and its payload. The payload of the n-th call is n,
\* so that any two commands of a run differ.
Cmd(kind, payload) == [kind |-> kind, payload |-> payload]

Payloads(r) == [i \in 1..Len(r) |-> r[i].payload]

NoCall == [cmd |-> Cmd("None", 0), result |-> "None"]

\* Producer::push with the hole a dropped full-check leaves: the element is
\* always stored
push_unchecked(r, c) == [ok |-> TRUE, ring |-> Append(r, c)]

\* Producer::push that reports Ok on a full ring and loses the element
push_silent_drop(r, c) ==
    IF Len(r) < command_capacity
    THEN [ok |-> TRUE, ring |-> Append(r, c)]
    ELSE [ok |-> TRUE, ring |-> r]

\* Producer::push that makes room on a full ring by dropping the oldest element
push_overwrite(r, c) ==
    IF Len(r) < command_capacity
    THEN [ok |-> TRUE, ring |-> Append(r, c)]
    ELSE [ok |-> FALSE, ring |-> Append(Tail(r), c)]

\* Producer::push that stores the element at the head
push_front(r, c) ==
    IF Len(r) < command_capacity
    THEN [ok |-> TRUE, ring |-> <<c>> \o r]
    ELSE [ok |-> FALSE, ring |-> r]

\* command_producer.push(command): Ok and the element stored at the tail when
\* the ring has a free slot, Err (the element handed back) when it is full
push(r, c) ==
    IF Len(r) < command_capacity
    THEN [ok |-> TRUE, ring |-> Append(r, c)]
    ELSE [ok |-> FALSE, ring |-> r]

\* map_err that swallows the error of the push
map_err_swallowed(ok) == "Ok"

\* .map_err(|_| CommandError::CommandQueueFull)
map_err(ok) == IF ok THEN "Ok" ELSE "CommandQueueFull"

\* The body shared by the eight mutators: build the command, push it, map the
\* error. The handed-back command of a failed push is dropped.
Mutate(kind) ==
    /\ calls < MaxCalls
    /\ LET c == Cmd(kind, calls + 1)
           r == push(ring, c)
       IN /\ ring' = r.ring
          /\ pushed' = IF r.ok THEN Append(pushed, c.payload) ELSE pushed
          /\ lastCall' = [cmd |-> c, result |-> map_err(r.ok)]
    /\ calls' = calls + 1
    /\ UNCHANGED <<applied, framesLeft, framesDone, pushedAtBlockStart,
                   appliedAtFirstFrame, seqVars, otherVars>>

set_volume == Mutate("SetVolume")

set_playback_rate == Mutate("SetPlaybackRate")

set_panning == Mutate("SetPanning")

pause == Mutate("Pause")

resume == Mutate("Resume")

stop == Mutate("Stop")

seek_to == Mutate("SeekTo")

seek_by == Mutate("SeekBy")

-----------------------------------------------------------------------------
(* The audio callback *)

\* The callback is entered with a buffer of n frames.
CallbackBegin ==
    /\ framesLeft = 0
    /\ \E n \in 1..MaxFrames : framesLeft' = n
    /\ framesDone' = 0
    /\ pushedAtBlockStart' = Len(pushed)
    /\ appliedAtFirstFrame' = 0
    /\ UNCHANGED <<ring, applied, pushed, calls, lastCall, seqVars, otherVars>>

\* Backend::process draining the ring newest first
drain_lifo(r) == [i \in 1..Len(r) |-> r[Len(r) + 1 - i]]

\* Backend::process, the part that drains the command ring: every command in
\* the ring is popped, oldest first, and applied.
drain(r) == r

\* What backend.process() returns: a left and a right sample. Samples are even
\* numbers, so that the mean of two of them is a whole number.
Samples == {-2, 0, 2}

Frame(left, right) == [left |-> left, right |-> right]

Outs == {Frame(l, r) : l \in Samples, r \in Samples}

Silence == Frame(0, 0)

\* the value of a sample of the buffer the callback has not written
Untouched == 9

\* data.chunks_exact_mut(channels): one frame of the buffer, not yet written
chunk(n) == [i \in 1..n |-> Untouched]

\* a write that puts the left sample into a mono frame
write_frame_mono_left(f, n, o) ==
    IF n = 1
    THEN [f EXCEPT ![1] = o.left]
    ELSE [f EXCEPT ![1] = o.left, ![2] = o.right]

\* a write that fills every sample of the frame, right from sample 1 on
write_frame_all(f, n, o) ==
    IF n = 1
    THEN [f EXCEPT ![1] = (o.left + o.right) \div 2]
    ELSE [i \in 1..n |-> IF i = 1 THEN o.left ELSE o.right]

\* The write of one frame: the mean of left and right with one channel, else
\* left into sample 0 and right into sample 1
write_frame(f, n, o) ==
    IF n = 1
    THEN [f EXCEPT ![1] = (o.left + o.right) \div 2]
    ELSE [f EXCEPT ![1] = o.left, ![2] = o.right]

\* One turn of the callback's loop: backend.process() (drain the commands, then
\* produce the frame o) and the write of the frame.
ProcessFrame(o) ==
    /\ framesLeft > 0
    /\ applied' = applied \o Payloads(drain(ring))
    /\ ring' = <<>>
    /\ lastOut' = o
    /\ frame' = write_frame(chunk(channels), channels, o)
    /\ framesLeft' = framesLeft - 1
    /\ framesDone' = framesDone + 1
    /\ appliedAtFirstFrame' =
           IF framesDone = 0 THEN Len(applied') ELSE appliedAtFirstFrame
    /\ UNCHANGED <<pushed, calls, lastCall, pushedAtBlockStart, channels, seqVars,
                   instVars, metroVars>>

-----------------------------------------------------------------------------
(* Durations, sounds and settings *)

\* Option<T>
None == <<>>

Some(x) == <<x>>

unwrap_or(o, default) == IF o = None THEN default ELSE o[1]

\* Duration::Seconds, Duration::Beats
Seconds(v) == [unit |-> "Seconds", v |-> v]

Beats(v) == [unit |-> "Beats", v |-> v]

\* Duration::in_seconds(tempo): seconds as they are, beats at 60 / tempo
\* seconds each
in_seconds(d, bpm) == IF d.unit = "Seconds" THEN d.v ELSE (d.v * 60) \div bpm

\* The tempos a metronome is given in a run
Tempos == {60, 120}

\* SoundId with the metadata captured at creation: duration in seconds,
\* authored tempo, semantic duration
Sound(name, duration, bpm, semantic) ==
    [name |-> name, duration |-> duration, tempo |-> bpm,
     semantic_duration |-> semantic]

SoundA == Sound("A", 4, Some(120), Some(Beats(8)))

SoundB == Sound("B", 4, None, None)

SoundC == Sound("C", 6, None, Some(Beats(4)))

SoundD == Sound("D", 5, Some(60), None)

Sounds == {SoundA, SoundB, SoundC, SoundD}

NoSound == Sound("", 0, None, None)

\* InstanceSettings: the position, and the volume standing for every other field
InstanceSettings(position, volume) == [position |-> position, volume |-> volume]

DefaultSettings == InstanceSettings(0, 1)

SettingsSet == {DefaultSettings, InstanceSettings(1, 2)}

\* LoopSettings
LoopSettings(start, end) == [start |-> start, end |-> end]

LoopSettingsSet ==
    {LoopSettings(s, e) : s \in {None, Some(Beats(2)), Some(Seconds(1))},
                          e \in {None, Some(Beats(6))}}

NoLoop == [sound |-> NoSound, loop_settings |-> LoopSettings(None, None),
           instance_settings |-> DefaultSettings, tempo |-> 0]

-----------------------------------------------------------------------------
(* Sequence: the timeline and its interpreter *)

Task(op, sound, settings, d, x) ==
    [op |-> op, sound |-> sound, settings |-> settings, d |-> d, x |-> x]

PlaySoundTask(sound, settings) == Task("PlaySound", sound, settings, Seconds(0), 0)

WaitTask(d) == Task("Wait", NoSound, DefaultSettings, d, 0)

StartLoopTask == Task("StartLoop", NoSound, DefaultSettings, Seconds(0), 0)

EmitCustomEventTask(e) == Task("EmitCustomEvent", NoSound, DefaultSettings, Seconds(0), e)

SetMetronomeTempoTask(t) ==
    Task("SetMetronomeTempo", NoSound, DefaultSettings, Seconds(0), t)

SetInstanceVolumeTask(v) ==
    Task("SetInstanceVolume", NoSound, DefaultSettings, Seconds(0), v)

\* Sequence::new(): no task, not started, not muted. uid, clean, age, muted_all
\* and loop are history: which object this is, that it was never paused or
\* stopped, the ticks (seconds) it has been updated for since it was started
\* (kept while clean and not finished), that it was muted in every tick, and
\* the arguments of the LoopSound that built it.
NewSequence ==
    [tasks |-> <<>>, state |-> "Idle", pc |-> 1, wait_timer |-> 0,
     loop_anchor |-> 0, muted |-> FALSE,
     uid |-> 0, clean |-> TRUE, age |-> 0, muted_all |-> TRUE, loop |-> NoLoop]

\* Sequence::play_sound, wait, start_loop and the other builders: append a task
add_task(q, t) == [q EXCEPT !.tasks = Append(@, t)]

play_sound(q, sound, settings) == add_task(q, PlaySoundTask(sound, settings))

wait(q, d) == add_task(q, WaitTask(d))

start_loop(q) == add_task(q, StartLoopTask)

\* Sequence::start
start(q) == [q EXCEPT !.state = "Playing", !.pc = 1, !.wait_timer = 0]

\* Sequence::mute, unmute
mute(q) == [q EXCEPT !.muted = TRUE]

unmute(q) == [q EXCEPT !.muted = FALSE]

\* Sequence::pause, resume: pausing freezes pc and wait_timer
pause_sequence(q) ==
    [q EXCEPT !.state = IF @ = "Playing" THEN "Paused" ELSE @,
              !.clean = FALSE, !.age = 0]

resume_sequence(q) == [q EXCEPT !.state = IF @ = "Paused" THEN "Playing" ELSE @]

\* Sequence::stop: the sequence is Finished from the next tick on
stop_sequence(q) == [q EXCEPT !.state = "Finished", !.clean = FALSE, !.age = 0]

\* Sequence::finished
finished(q) == q.state = "Finished"

\* The output command of a task. owner and owner_muted are history: the
\* sequence that output the command and whether it was muted then.
SequenceOutputCommand(t, q) ==
    [kind |-> t.op, sound |-> t.sound, settings |-> t.settings, x |-> t.x,
     owner |-> q.uid, owner_muted |-> q.muted]

\* An interpreter that outputs the PlaySound commands of a muted sequence too
emit_unfiltered(q, t, queue) == Append(queue, SequenceOutputCommand(t, q))

\* An interpreter that outputs nothing while the sequence is muted
emit_nothing_muted(q, t, queue) ==
    IF q.muted THEN queue ELSE Append(queue, SequenceOutputCommand(t, q))

\* Muting suppresses only the PlaySound commands
emit(q, t, queue) ==
    IF q.muted /\ t.op = "PlaySound"
    THEN queue
    ELSE Append(queue, SequenceOutputCommand(t, q))

\* Run the tasks from pc on, taking no time, until a wait with time to wait or
\* the end of the list: past the last task the sequence jumps to its loop
\* anchor, or is Finished when it has none.
RECURSIVE run_tasks(_, _, _)
run_tasks(q, queue, bpm) ==
    IF q.pc > Len(q.tasks)
    THEN IF q.loop_anchor # 0
         THEN run_tasks([q EXCEPT !.pc = q.loop_anchor], queue, bpm)
         ELSE [seq |-> [q EXCEPT !.state = "Finished"], queue |-> queue]
    ELSE LET t == q.tasks[q.pc]
             next == [q EXCEPT !.pc = @ + 1]
         IN CASE t.op = "Wait" ->
                    IF in_seconds(t.d, bpm) > 0
                    THEN [seq |-> [next EXCEPT !.wait_timer = in_seconds(t.d, bpm)],
                          queue |-> queue]
                    ELSE run_tasks(next, queue, bpm)
              [] t.op = "StartLoop" ->
                    run_tasks([next EXCEPT !.loop_anchor = q.pc + 1], queue, bpm)
              [] OTHER ->
                    run_tasks(next, emit(q, t, queue), bpm)

\* the time one update tick advances a sequence by, in seconds
dt == 1

\* Sequence::update(dt, metronome, queue): a sequence that is not Playing does
\* nothing; a wait_timer above 0 is decremented by dt and, while it stays above
\* 0, nothing is output; otherwise the tasks are run.
sequence_update(q, queue, bpm) ==
    LET seen == [q EXCEPT !.muted_all = @ /\ q.muted,
                           !.age = IF q.clean /\ ~finished(q) THEN @ + 1 ELSE @]
    IN IF q.state # "Playing"
       THEN [seq |-> seen, queue |-> queue]
       ELSE IF q.wait_timer > dt
            THEN [seq |-> [seen EXCEPT !.wait_timer = @ - dt], queue |-> queue]
            ELSE run_tasks([seen EXCEPT !.wait_timer = 0], queue, bpm)

-----------------------------------------------------------------------------
(* Sequences: the pool of live sequences *)

SequenceIds == {1, 2}

\* Sequences::new(sequence_capacity, command_capacity): the number of
\* sequences the map and the list of sequences to remove are sized for
sequence_capacity == 2

Entry(id, q) == [id |-> id, seq |-> q]

\* IndexMap::get_index_of: the position of the entry with this key, 0 when the
\* key is not in the map
index_of(m, id) ==
    IF \E i \in 1..Len(m) : m[i].id = id
    THEN CHOOSE i \in 1..Len(m) : m[i].id = id
    ELSE 0

contains_key(m, id) == index_of(m, id) # 0

\* IndexMap::insert: a new key is appended; the value of a key already in the
\* map is replaced where it is, and the old value is returned
insert(m, id, q) ==
    IF contains_key(m, id)
    THEN [map |-> [m EXCEPT ![index_of(m, id)] = Entry(id, q)],
          old |-> Some(m[index_of(m, id)].seq)]
    ELSE [map |-> Append(m, Entry(id, q)), old |-> None]

\* IndexMap::remove (swap_remove): the entry is removed and the last entry of
\* the map takes its place
remove(m, id) ==
    LET i == index_of(m, id)
        n == Len(m)
    IN IF i = 0
       THEN [map |-> m, old |-> None]
       ELSE [map |-> [k \in 1..(n - 1) |-> IF k = i THEN m[n] ELSE m[k]],
             old |-> Some(m[i].seq)]

\* the method of the sequence a command calls
call(method, q) ==
    CASE method = "mute" -> mute(q)
      [] method = "unmute" -> unmute(q)
      [] method = "pause" -> pause_sequence(q)
      [] method = "resume" -> resume_sequence(q)
      [] method = "stop" -> stop_sequence(q)

\* a command that calls the method of every live sequence
with_every_sequence(m, id, method) ==
    [i \in 1..Len(m) |-> [m[i] EXCEPT !.seq = call(method, @)]]

\* IndexMap::get_mut followed by a method of the sequence: the sequence with
\* this id is changed where it is; nothing happens when the id is not in the map
with_sequence(m, id, method) ==
    IF contains_key(m, id)
    THEN [m EXCEPT ![index_of(m, id)].seq = call(method, @)]
    ELSE m

\* Sequences::start_sequence: start the sequence and insert it under id. A
\* sequence that was in the map under id is dropped here.
start_sequence(id, q) ==
    LET r == insert(sequences, id,
                    start([q EXCEPT !.uid = started + 1]))
    IN /\ sequences' = r.map
       /\ dropped' = IF r.old = None THEN dropped ELSE dropped \cup {r.old[1].uid}
       /\ started' = started + 1

\* The sequences the control thread authors
Authored ==
    { \* PlaySound(A), Wait(1s), EmitCustomEvent(1), PlaySound(B)
      [NewSequence EXCEPT !.tasks =
          <<PlaySoundTask(SoundA, DefaultSettings), WaitTask(Seconds(1)),
            EmitCustomEventTask(1), PlaySoundTask(SoundB, DefaultSettings)>>],
      \* SetMetronomeTempo, SetInstanceVolume, Wait(2 beats), EmitCustomEvent(2)
      [NewSequence EXCEPT !.tasks =
          <<SetMetronomeTempoTask(60), SetInstanceVolumeTask(2),
            WaitTask(Beats(2)), EmitCustomEventTask(2)>>],
      \* EmitCustomEvent(3)
      [NewSequence EXCEPT !.tasks = <<EmitCustomEventTask(3)>>] }

\* SequenceCommand::StartSequence, as one of the first max sequences of the run
StartSequenceOf(max, id, q) ==
    /\ started < max
    /\ start_sequence(id, q)
    /\ out' = <<>>
    /\ UNCHANGED <<unused, tempo, popped, ringVars, otherVars>>

\* SequenceCommand::StartSequence
StartSequence(id, q) == StartSequenceOf(MaxSequences, id, q)

\* LoopSound whose tempo is the metronome's even when the sound has one
loop_tempo_metronome_first(sound, bpm) == bpm

\* the tempo LoopSound resolves beats with
loop_tempo(sound, bpm) == unwrap_or(sound.tempo, bpm)

\* LoopSound that takes the full duration of the sound for an unset end
loop_duration_full(sound) == Seconds(sound.duration)

\* the duration LoopSound takes for an unset loop end
loop_duration(sound) == unwrap_or(sound.semantic_duration, Seconds(sound.duration))

\* LoopSound that starts an unset loop start at the given position
loop_start_at_position(sound, loop_settings, instance_settings, bpm) ==
    in_seconds(unwrap_or(loop_settings.start, Seconds(instance_settings.position)),
               loop_tempo(sound, bpm))

loop_start(sound, loop_settings, instance_settings, bpm) ==
    in_seconds(unwrap_or(loop_settings.start, Seconds(0)), loop_tempo(sound, bpm))

loop_end(sound, loop_settings, bpm) ==
    in_seconds(unwrap_or(loop_settings.end, loop_duration(sound)),
               loop_tempo(sound, bpm))

\* LoopSound that waits from the loop start before the first looped play
loop_sequence_first_wait_from_start(sound, loop_settings, instance_settings, bpm) ==
    LET s == loop_start(sound, loop_settings, instance_settings, bpm)
        e == loop_end(sound, loop_settings, bpm)
        q1 == play_sound(NewSequence, sound, instance_settings)
        q2 == wait(q1, Seconds(e - s))
        q3 == start_loop(q2)
        q4 == play_sound(q3, sound, [instance_settings EXCEPT !.position = s])
    IN wait(q4, Seconds(e - s))

\* LoopSound that keeps the waits in beats, to be resolved when they are run
loop_sequence_waits_in_beats(sound, loop_settings, instance_settings, bpm) ==
    LET t == loop_tempo(sound, bpm)
        s == loop_start(sound, loop_settings, instance_settings, bpm)
        e == loop_end(sound, loop_settings, bpm)
        q1 == play_sound(NewSequence, sound, instance_settings)
        q2 == wait(q1, Beats(((e - instance_settings.position) * t) \div 60))
        q3 == start_loop(q2)
        q4 == play_sound(q3, sound, [instance_settings EXCEPT !.position = s])
    IN wait(q4, Beats(((e - s) * t) \div 60))

\* LoopSound without the loop point: the sequence ends after the looped play
loop_sequence_once(sound, loop_settings, instance_settings, bpm) ==
    LET s == loop_start(sound, loop_settings, instance_settings, bpm)
        e == loop_end(sound, loop_settings, bpm)
        q1 == play_sound(NewSequence, sound, instance_settings)
        q2 == wait(q1, Seconds(e - instance_settings.position))
        q4 == play_sound(q2, sound, [instance_settings EXCEPT !.position = s])
    IN wait(q4, Seconds(e - s))

\* The sequence LoopSound builds: play from the given position, wait
\* end - position seconds, then loop: play from start, wait end - start seconds
loop_sequence(sound, loop_settings, instance_settings, bpm) ==
    LET s == loop_start(sound, loop_settings, instance_settings, bpm)
        e == loop_end(sound, loop_settings, bpm)
        q1 == play_sound(NewSequence, sound, instance_settings)
        q2 == wait(q1, Seconds(e - instance_settings.position))
        q3 == start_loop(q2)
        q4 == play_sound(q3, sound, [instance_settings EXCEPT !.position = s])
    IN wait(q4, Seconds(e - s))

\* SequenceCommand::LoopSound
LoopSound(id, sound, loop_settings, instance_settings) ==
    /\ started < MaxSequences
    /\ start_sequence(id,
          [loop_sequence(sound, loop_settings, instance_settings, tempo)
              EXCEPT !.loop = [sound |-> sound, loop_settings |-> loop_settings,
                               instance_settings |-> instance_settings,
                               tempo |-> tempo]])
    /\ out' = <<>>
    /\ UNCHANGED <<unused, tempo, popped, ringVars, otherVars>>

\* the commands that change one live sequence, if it is there
ChangeSequence(id, method) ==
    /\ sequences' = with_sequence(sequences, id, method)
    /\ out' = <<>>
    /\ UNCHANGED <<unused, tempo, started, popped, dropped, ringVars, otherVars>>

MuteSequence(id) == ChangeSequence(id, "mute")

UnmuteSequence(id) == ChangeSequence(id, "unmute")

PauseSequence(id) == ChangeSequence(id, "pause")

ResumeSequence(id) == ChangeSequence(id, "resume")

StopSequence(id) == ChangeSequence(id, "stop")

\* MetronomeCommand::SetMetronomeTempo, sent by the control thread
SetMetronomeTempo(t) ==
    /\ tempo' = t
    /\ out' = <<>>
    /\ UNCHANGED <<sequences, unused, started, popped, dropped, ringVars, otherVars>>

\* The control thread takes a finished sequence from the ring and drops it.
PopUnused ==
    /\ unused # <<>>
    /\ popped' = popped \cup {Head(unused).uid}
    /\ unused' = Tail(unused)
    /\ UNCHANGED <<sequences, tempo, out, started, dropped, ringVars, otherVars>>

-----------------------------------------------------------------------------
(* Sequences::update *)

\* First loop of update: every live sequence is updated in the map's order, its
\* commands are collected, and the ids of the finished sequences are noted.
RECURSIVE update_sequences(_, _, _, _, _)
update_sequences(m, i, queue, to_remove, bpm) ==
    IF i > Len(m)
    THEN [map |-> m, queue |-> queue, to_remove |-> to_remove]
    ELSE LET r == sequence_update(m[i].seq, queue, bpm)
         IN update_sequences([m EXCEPT ![i].seq = r.seq], i + 1, r.queue,
                             IF finished(r.seq)
                             THEN Append(to_remove, m[i].id)
                             ELSE to_remove,
                             bpm)

\* Producer::push onto the ring of unused sequences
push_unused(r, q) ==
    IF Len(r) < unused_capacity
    THEN [ok |-> TRUE, ring |-> Append(r, q)]
    ELSE [ok |-> FALSE, ring |-> r]

\* update that drops a finished sequence the ring has no room for
hand_over_or_drop(m, id, q, r) ==
    LET p == push_unused(r, q)
    IN [map |-> m, ring |-> p.ring, lost |-> IF p.ok THEN {} ELSE {q.uid}]

\* update that puts every finished sequence back into the map
hand_over_never(m, id, q, r) == [map |-> insert(m, id, q).map, ring |-> r, lost |-> {}]

\* update that puts a sequence the ring has no room for back under another id
hand_over_other_id(m, id, q, r) ==
    LET p == push_unused(r, q)
        other == CHOOSE k \in SequenceIds : k # id
    IN IF p.ok
       THEN [map |-> m, ring |-> p.ring, lost |-> {}]
       ELSE [map |-> insert(m, other, q).map, ring |-> r,
             lost |-> IF insert(m, other, q).old = None THEN {}
                      ELSE {insert(m, other, q).old[1].uid}]

\* The removed sequence is pushed onto the ring; when the ring is full it is
\* inserted into the map again under its id.
hand_over(m, id, q, r) ==
    LET p == push_unused(r, q)
    IN IF p.ok
       THEN [map |-> m, ring |-> p.ring, lost |-> {}]
       ELSE [map |-> insert(m, id, q).map, ring |-> r, lost |-> {}]

\* Second loop of update: each noted id is removed from the map and handed over.
\* panicked says that a remove found nothing to unwrap; to_remove is the list
\* as drain(..) leaves it.
RECURSIVE remove_finished(_, _, _, _, _)
remove_finished(m, to_remove, r, lost, panicked) ==
    IF to_remove = <<>>
    THEN [map |-> m, ring |-> r, lost |-> lost, panicked |-> panicked,
          to_remove |-> to_remove]
    ELSE LET rem == remove(m, Head(to_remove))
         IN IF rem.old = None
            THEN remove_finished(m, Tail(to_remove), r, lost, TRUE)
            ELSE LET h == hand_over(rem.map, Head(to_remove), rem.old[1], r)
                 IN remove_finished(h.map, Tail(to_remove), h.ring,
                                    lost \cup h.lost, panicked)

\* Third loop of update: each SequenceOutputCommand becomes the Command of the
\* subsystem it is for.
to_command(c) ==
    [group |-> CASE c.kind \in {"PlaySound", "SetInstanceVolume", "SetInstancePitch",
                                "PauseInstance", "ResumeInstance", "StopInstance",
                                "PauseInstancesOfSound", "ResumeInstancesOfSound",
                                "StopInstancesOfSound"} -> "Instance"
                 [] c.kind \in {"SetMetronomeTempo", "StartMetronome",
                                "PauseMetronome", "StopMetronome"} -> "Metronome"
                 [] OTHER -> "EmitCustomEvent",
     kind |-> c.kind, sound |-> c.sound, settings |-> c.settings, x |-> c.x,
     owner |-> c.owner, owner_muted |-> c.owner_muted]

\* A conversion that passes on the instance commands only
convert_instance_only(queue) ==
    LET cmds == [i \in 1..Len(queue) |-> to_command(queue[i])]
    IN SelectSeq(cmds, LAMBDA c : c.group = "Instance")

convert(queue) == [i \in 1..Len(queue) |-> to_command(queue[i])]

\* The backend routes the commands update returned: a SetMetronomeTempo sets
\* the metronome's tempo.
RECURSIVE route(_, _)
route(cmds, bpm) ==
    IF cmds = <<>>
    THEN bpm
    ELSE route(Tail(cmds),
               IF Head(cmds).kind = "SetMetronomeTempo" THEN Head(cmds).x ELSE bpm)

\* One tick: Sequences::update(dt, metronome, producer) and the routing of the
\* commands it returns.
Update ==
    /\ \A i \in 1..Len(sequences) : sequences[i].seq.age < MaxTime
    /\ LET u == update_sequences(sequences, 1, <<>>, <<>>, tempo)
           r == remove_finished(u.map, u.to_remove, unused, {}, FALSE)
       IN /\ sequences' = r.map
          /\ unused' = r.ring
          /\ dropped' = dropped \cup r.lost
          /\ out' = convert(u.queue)
          /\ tempo' = route(convert(u.queue), tempo)
    /\ UNCHANGED <<started, popped, ringVars, otherVars>>

-----------------------------------------------------------------------------
(* One instance of a sound *)

\* The instance's fade runs from 0 to FadeSteps, one step per frame; its sound
\* is SoundFrames frames long and every frame of it is SoundFrame.
SoundFrame == Frame(2, 2)

\* a tween takes no time or FadeSteps frames
Tweens == {0, FadeSteps}

\* Instance: playback state, fade and the fade's target (None when no tween is
\* running), position in frames, volume, pitch (frames per frame) and panning
\* (0 left, 1 centre, 2 right). since_stop is history: what reached the
\* instance after it was Stopped.
Instance(playback, position) ==
    [playback |-> playback, fade |-> FadeSteps, target |-> None,
     position |-> position, volume |-> 1, pitch |-> 1, panning |-> 1,
     since_stop |-> {}]

NoInstance == Instance("None", 0)

\* a position: every position past the end of the sound is the end
past_end(position) == IF position >= SoundFrames THEN SoundFrames ELSE position

\* The commands and transitions of an instance that is not Stopped
instance_command(i, kind, tween, x) ==
    CASE kind = "SetVolume" -> [i EXCEPT !.volume = x]
      [] kind = "SetPlaybackRate" -> [i EXCEPT !.pitch = x]
      [] kind = "SetPanning" -> [i EXCEPT !.panning = x]
      [] kind = "Pause" ->
           IF i.playback \in {"Playing", "Resuming"}
           THEN IF tween = 0
                THEN [i EXCEPT !.playback = "Paused", !.fade = 0, !.target = None]
                ELSE [i EXCEPT !.playback = "Pausing", !.target = Some(0)]
           ELSE i
      [] kind = "Resume" ->
           IF i.playback \in {"Paused", "Pausing"}
           THEN IF tween = 0
                THEN [i EXCEPT !.playback = "Playing", !.fade = FadeSteps,
                               !.target = None]
                ELSE [i EXCEPT !.playback = "Resuming", !.target = Some(FadeSteps)]
           ELSE i
      [] kind = "Stop" ->
           IF tween = 0
           THEN [i EXCEPT !.playback = "Stopped", !.fade = 0, !.target = None]
           ELSE [i EXCEPT !.playback = "Stopping", !.target = Some(0)]
      [] kind = "SeekTo" -> [i EXCEPT !.position = past_end(x)]
      [] kind = "SeekBy" -> [i EXCEPT !.position = past_end(@ + x)]

\* commands that take a stopped instance for a paused one on Resume
instance_apply_restart(i, kind, tween, x) ==
    IF i.playback = "None"
    THEN i
    ELSE IF i.playback = "Stopped"
    THEN IF kind = "Resume"
         THEN instance_command([i EXCEPT !.playback = "Paused"], kind, tween, x)
         ELSE [i EXCEPT !.since_stop = @ \cup {"command"}]
    ELSE instance_command(i, kind, tween, x)

\* A command of the handle reaches the instance. Stopped is absorbing: the
\* command is a no-op; a command for an instance that does not exist is dropped.
instance_apply(i, kind, tween, x) ==
    IF i.playback = "None"
    THEN i
    ELSE IF i.playback = "Stopped"
    THEN [i EXCEPT !.since_stop =
              @ \cup {IF kind = "Resume" THEN "resume" ELSE "command"}]
    ELSE instance_command(i, kind, tween, x)

\* step 1 of the per-frame step: the fade moves one step towards its target
advance_fade(i) ==
    IF i.target = None
    THEN i
    ELSE LET v == IF i.fade < i.target[1] THEN i.fade + 1
                  ELSE IF i.fade > i.target[1] THEN i.fade - 1 ELSE i.fade
         IN [i EXCEPT !.fade = v, !.target = IF v = i.target[1] THEN None ELSE @]

\* step 2: a fade that has run out ends Pausing in Paused and Stopping in
\* Stopped (and Resuming in Playing)
settle(i) ==
    IF i.target # None
    THEN i
    ELSE CASE i.playback = "Pausing" /\ i.fade <= 0 -> [i EXCEPT !.playback = "Paused"]
           [] i.playback = "Stopping" /\ i.fade <= 0 -> [i EXCEPT !.playback = "Stopped"]
           [] i.playback = "Resuming" -> [i EXCEPT !.playback = "Playing"]
           [] OTHER -> i

\* steps 6 and 7: the frame of the sound with fade, volume and panning applied
mix(i) ==
    Frame(SoundFrame.left * (2 - i.panning) * i.volume * i.fade,
          SoundFrame.right * i.panning * i.volume * i.fade)

\* The per-frame step of the instance: the instance after it and the frame it
\* contributes. Stopped and Paused contribute silence; a position past the end
\* of the sound stops the instance.
instance_step(i) ==
    IF i.playback = "None"
    THEN [instance |-> i, out |-> Silence]
    ELSE LET a == settle(advance_fade(i))
         IN IF a.playback = "Stopped"
            THEN [instance |-> [a EXCEPT !.since_stop =
                                   IF i.playback = "Stopped" THEN @ \cup {"step"} ELSE @],
                  out |-> Silence]
            ELSE IF a.playback = "Paused"
            THEN [instance |-> a, out |-> Silence]
            ELSE LET b == [a EXCEPT !.position = @ + a.pitch]
                 IN IF b.position >= SoundFrames
                    THEN [instance |-> [b EXCEPT !.playback = "Stopped",
                                                 !.position = SoundFrames],
                          out |-> Silence]
                    ELSE [instance |-> b, out |-> mix(b)]

\* InstanceCommand::PlaySound: the instance is created, Playing, at the start
\* position of its settings
PlayInstance(position) ==
    /\ instance.playback = "None"
    /\ instance' = Instance("Playing", position)
    /\ UNCHANGED <<instance_out, ringVars, seqVars, frameVars, metroVars>>

\* The backend applies a drained command of the handle to the instance.
ApplyInstanceCommand(kind, tween, x) ==
    /\ instance' = instance_apply(instance, kind, tween, x)
    /\ UNCHANGED <<instance_out, ringVars, seqVars, frameVars, metroVars>>

\* The backend steps the instance for one frame.
StepInstance ==
    /\ instance' = instance_step(instance).instance
    /\ instance_out' = instance_step(instance).out
    /\ UNCHANGED <<ringVars, seqVars, frameVars, metroVars>>

-----------------------------------------------------------------------------
(* The metronome *)

\* The metronome counts time in ticks of 1/8 second and beats in 1/8 beat:
\* at a tempo of t beats per minute one tick advances the beat position by
\* t / 60 eighths of a beat.
Eighths(whole, eighths) == whole * 8 + eighths

\* MetronomeSettings::interval_events_to_emit: every 1.0 and every 0.5 beat
interval_events_to_emit == <<Eighths(1, 0), Eighths(0, 4)>>

\* Metronome::new: not running, at beat 0. time, start_tempo and steady are
\* history: the ticks so far, the tempo at StartMetronome, and whether the
\* metronome has been running since time 0 at that tempo.
NewMetronome ==
    [running |-> FALSE, beat_position |-> 0, time |-> 0, start_tempo |-> 0,
     steady |-> FALSE]

IntervalEvent(x, beat, time) == [interval |-> x, beat |-> beat, time |-> time]

\* an interval that fires for the multiples in [prev, beat_position)
fired_from_prev(x, prev, beat_position, time) ==
    LET first == (prev + x - 1) \div x
        last == (beat_position - 1) \div x
    IN [i \in 1..(last - first + 1) |-> IntervalEvent(x, (first + i - 1) * x, time)]

\* the events of interval x in one tick: one for every integer k with
\* prev < k * x <= beat_position, smallest k first
fired(x, prev, beat_position, time) ==
    LET first == (prev \div x) + 1
        last == beat_position \div x
    IN [i \in 1..(last - first + 1) |-> IntervalEvent(x, (first + i - 1) * x, time)]

\* the events of the intervals from the i-th on, in the order of the settings
RECURSIVE fired_intervals(_, _, _, _)
fired_intervals(i, prev, beat_position, time) ==
    IF i > Len(interval_events_to_emit)
    THEN <<>>
    ELSE fired(interval_events_to_emit[i], prev, beat_position, time)
           \o fired_intervals(i + 1, prev, beat_position, time)

\* tick(dt) of a running metronome: the beat position advances by
\* dt * tempo / 60
tick(m, bpm) ==
    [m EXCEPT !.beat_position = @ + bpm \div 60,
              !.time = @ + 1,
              !.steady = @ /\ bpm = m.start_tempo]

\* MetronomeCommand::StartMetronome: running, the position is not reset
StartMetronome ==
    /\ ~metronome.running
    /\ metronome' = [metronome EXCEPT !.running = TRUE,
                                      !.start_tempo = tempo,
                                      !.steady = metronome.time = 0]
    /\ UNCHANGED <<interval_events, ringVars, seqVars, frameVars, instVars>>

\* MetronomeCommand::PauseMetronome: not running
PauseMetronome ==
    /\ metronome.running
    /\ metronome' = [metronome EXCEPT !.running = FALSE, !.steady = FALSE]
    /\ UNCHANGED <<interval_events, ringVars, seqVars, frameVars, instVars>>

\* MetronomeCommand::StopMetronome: not running, back at beat 0
StopMetronome ==
    /\ metronome.running \/ metronome.beat_position # 0
    /\ metronome' = [metronome EXCEPT !.running = FALSE, !.beat_position = 0,
                                      !.steady = FALSE]
    /\ UNCHANGED <<interval_events, ringVars, seqVars, frameVars, instVars>>

\* One tick of the audio thread: tick(dt) and the events it emits. A
\* metronome that is not running lets the time pass.
TickMetronome ==
    /\ metronome.time < MaxTicks
    /\ IF metronome.running
       THEN LET m == tick(metronome, tempo)
            IN /\ metronome' = m
               /\ interval_events' =
                     interval_events
                       \o fired_intervals(1, metronome.beat_position,
                                          m.beat_position, m.time)
       ELSE /\ metronome' = [metronome EXCEPT !.time = @ + 1]
            /\ interval_events' = interval_events
    /\ UNCHANGED <<ringVars, seqVars, frameVars, instVars>>

-----------------------------------------------------------------------------

InitSequences ==
    /\ sequences = <<>>
    /\ unused = <<>>
    /\ tempo \in Tempos
    /\ out = <<>>
    /\ started = 0
    /\ popped = {}
    /\ dropped = {}

InitRing ==
    /\ ring = <<>>
    /\ applied = <<>>
    /\ pushed = <<>>
    /\ calls = 0
    /\ lastCall = NoCall
    /\ framesLeft = 0
    /\ framesDone = 0
    /\ pushedAtBlockStart = 0
    /\ appliedAtFirstFrame = 0

\* a stereo device; no frame written yet
InitCallback(n) ==
    /\ channels = n
    /\ frame = <<>>
    /\ lastOut = Silence

InitInstance ==
    /\ instance = NoInstance
    /\ instance_out = Silence

InitMetronome ==
    /\ metronome = NewMetronome
    /\ interval_events = <<>>

Init ==
    /\ InitRing
    /\ InitSequences
    /\ InitCallback(2)
    /\ InitInstance
    /\ InitMetronome

NextRing ==
    \/ set_volume
    \/ set_playback_rate
    \/ set_panning
    \/ pause
    \/ resume
    \/ stop
    \/ seek_to
    \/ seek_by
    \/ CallbackBegin
    \/ ProcessFrame(Silence)

SpecRing == Init /\ [][NextRing]_vars

\* The callback alone, on devices of one to MaxChannels channels, the backend
\* returning any frame
InitFrames ==
    /\ InitRing
    /\ InitSequences
    /\ \E n \in 1..MaxChannels : InitCallback(n)
    /\ InitInstance
    /\ InitMetronome

NextFrames ==
    \/ CallbackBegin
    \/ \E o \in Outs : ProcessFrame(o)

SpecFrames == InitFrames /\ [][NextFrames]_vars

\* One instance: played, sent every command of the handle, stepped
NextInstance ==
    \/ \E position \in 0..1 : PlayInstance(position)
    \/ \E kind \in Mutators, tween \in Tweens, x \in 1..2 :
          ApplyInstanceCommand(kind, tween, x)
    \/ StepInstance

SpecInstance == Init /\ [][NextInstance]_vars

\* The metronome: started, paused, stopped, its tempo set, ticked
NextMetronome ==
    \/ StartMetronome
    \/ PauseMetronome
    \/ StopMetronome
    \/ \E t \in Tempos : SetMetronomeTempo(t)
    \/ TickMetronome

SpecMetronome == Init /\ [][NextMetronome]_vars

\* The loop the pool is given beside the authored sequences
PoolLoop(id) ==
    LoopSound(id, SoundB, LoopSettings(None, Some(Seconds(3))), DefaultSettings)

\* The life of the sequences of the pool: started, stopped, updated, handed to
\* the control thread
NextSequences ==
    \/ \E id \in SequenceIds, q \in Authored : StartSequence(id, q)
    \/ \E id \in SequenceIds : PoolLoop(id)
    \/ \E id \in SequenceIds : StopSequence(id)
    \/ PopUnused
    \/ Update

Spec == Init /\ [][NextSequences]_vars

\* Authored sequences that are muted and unmuted while they run
NextMute ==
    \/ \E id \in SequenceIds, q \in Authored : StartSequence(id, q)
    \/ \E id \in SequenceIds : MuteSequence(id)
    \/ \E id \in SequenceIds : UnmuteSequence(id)
    \/ PopUnused
    \/ Update

SpecMute == Init /\ [][NextMute]_vars

\* The sequence that sets the metronome's tempo
TempoSequence == CHOOSE q \in Authored : q.tasks[1].op = "SetMetronomeTempo"

\* Loops of every sound and setting under id 1, started before the sequence
\* under id 2, beside tempo changes from the control thread (before and after
\* LoopSound) and from the sequence under id 2
NextLoop ==
    \/ \E sound \in Sounds, ls \in LoopSettingsSet, is \in SettingsSet :
          started < MaxLoops /\ LoopSound(1, sound, ls, is)
    \/ StartSequence(2, TempoSequence)
    \/ \E t \in Tempos : SetMetronomeTempo(t)
    \/ PopUnused
    \/ Update

SpecLoop == Init /\ [][NextLoop]_vars

\* Every command of the pool: a loop under id 1 and authored sequences under
\* both ids, as many sequences as there are ids, muted, unmuted, paused, resumed
\* and stopped while they run
PoolSize == Cardinality(SequenceIds)

\* the authored sequence that plays two sounds
PoolAuthored == {q \in Authored : q.tasks[1].op = "PlaySound"}

NextPool ==
    \/ started < PoolSize /\ PoolLoop(1)
    \/ \E id \in SequenceIds, q \in PoolAuthored : StartSequenceOf(PoolSize, id, q)
    \/ \E id \in SequenceIds : MuteSequence(id)
    \/ \E id \in SequenceIds : UnmuteSequence(id)
    \/ \E id \in SequenceIds : PauseSequence(id)
    \/ \E id \in SequenceIds : ResumeSequence(id)
    \/ \E id \in SequenceIds : StopSequence(id)
    \/ PopUnused
    \/ Update

SpecPool == Init /\ [][NextPool]_vars

\* Three authored sequences under three ids: a pool in which a sequence
\* finishes beside two that go on
NextOrder ==
    \/ \E id \in 1..MaxOrdered, q \in Authored : StartSequenceOf(MaxOrdered, id, q)
    \/ PopUnused
    \/ Update

SpecOrder == Init /\ [][NextOrder]_vars

\* An update that changes the pool, the ring or the output can be taken
UpdateEnabled ==
    /\ \A i \in 1..Len(sequences) : sequences[i].seq.age < MaxTime
    /\ LET u == update_sequences(sequences, 1, <<>>, <<>>, tempo)
           r == remove_finished(u.map, u.to_remove, unused, {}, FALSE)
       IN <<r.map, r.ring, dropped \cup r.lost, convert(u.queue),
            route(convert(u.queue), tempo)>>
            # <<sequences, unused, dropped, out, tempo>>

\* The scheduling of the two threads: the audio thread calls update in every
\* tick (WF_vars(Update), with ENABLED <<Update>>_vars written out), and the
\* control thread keeps taking the sequences off the ring of unused sequences.
FairUpdate == ([]<>~UpdateEnabled) \/ ([]<><<Update>>_vars)

FairOrder == SpecOrder /\ FairUpdate /\ WF_vars(PopUnused)

-----------------------------------------------------------------------------
(* Claims about the command ring *)

Range(f) == {f[i] : i \in DOMAIN f}

\* a step of one of the eight handle mutators
MutatorStep == calls' = calls + 1

\* C1: a handle mutator returns CommandQueueFull exactly when the ring holds
\* command_capacity undrained commands at push time; otherwise it returns Ok
\* and exactly its command is added to the ring (at the tail). So with nothing
\* drained the (command_capacity + 1)-th push fails, and a push onto a drained
\* ring succeeds.
C1_FullIffNoFreeSlot ==
    [][MutatorStep =>
         /\ lastCall'.cmd.kind \in Mutators
         /\ (lastCall'.result = "CommandQueueFull") <=> (Len(ring) = command_capacity)
         /\ (lastCall'.result = "Ok") <=> (Len(ring) < command_capacity)
         /\ lastCall'.result = "Ok" => ring' = Append(ring, lastCall'.cmd)
         /\ (applied = <<>> /\ calls = command_capacity)
                => lastCall'.result = "CommandQueueFull"
         /\ ring = <<>> => lastCall'.result = "Ok"]_vars

\* C1 witness: the first command_capacity pushes succeeded, the next one was
\* rejected, the ring was drained and the push after that succeeded.
C1_Witness ==
    /\ calls = command_capacity + 2
    /\ pushed = [i \in 1..(command_capacity + 1) |->
                    IF i <= command_capacity THEN i ELSE command_capacity + 2]
    /\ lastCall.result = "Ok"
    /\ Len(applied) = command_capacity

\* C2: a mutator call that returns CommandQueueFull leaves the ring and the
\* audio side as they were, and the rejected command is never in the ring nor
\* applied afterwards.
C2_RejectedLeavesNoTrace ==
    [][/\ (MutatorStep /\ lastCall'.result = "CommandQueueFull")
            => (ring' = ring /\ applied' = applied /\ pushed' = pushed)
       /\ \A n \in 1..calls' :
            n \notin Range(pushed')
                => (n \notin Range(applied') /\ n \notin Range(Payloads(ring')))]_vars

\* C2 witness: a command was rejected, and later the audio side drained the
\* ring and applied the commands that were in it.
C2_Witness ==
    /\ \E n \in 1..calls : n \notin Range(pushed) /\ n < calls
    /\ Len(applied) = command_capacity
    /\ framesDone > 0

\* C3: the commands pushed successfully are applied in the order pushed, none
\* lost and none twice, and every command in the ring when a callback block
\* starts is applied before the block's first frame is produced.
C3_AppliedInPushOrder ==
    /\ applied \o Payloads(ring) = pushed
    /\ framesDone > 0 => appliedAtFirstFrame >= pushedAtBlockStart

\* C3 witness: a block started with several commands in the ring and its first
\* frame has been produced.
C3_Witness ==
    /\ framesDone > 0
    /\ pushedAtBlockStart >= 2
    /\ appliedAtFirstFrame = pushedAtBlockStart
    /\ Len(applied) >= 2

-----------------------------------------------------------------------------
(* Claims about the sequence pool *)

Min(a, b) == IF a < b THEN a ELSE b

\* the live sequences, and the entries of the map as a set
Live == {sequences[i].seq : i \in 1..Len(sequences)}

Entries(m) == {m[i] : i \in 1..Len(m)}

\* the entries of the map as each sequence's own update leaves them, in the
\* map's order, and those of them that are finished
Updated ==
    [i \in 1..Len(sequences) |->
        Entry(sequences[i].id, sequence_update(sequences[i].seq, <<>>, tempo).seq)]

IsFinishedEntry(e) == finished(e.seq)

FinishedAfterUpdate == SelectSeq(Updated, IsFinishedEntry)

\* C4: in Sequences::update every sequence that is finished after its update is
\* taken out of the live set and pushed onto the unused-sequence ring while the
\* ring has a free slot (in the map's order); with the ring full it is back in
\* the live set under the same id. No sequence is dropped, and the sequences
\* that are not finished stay live under their ids.
C4_FinishedHandedOverOrKept ==
    [][Update =>
        LET fin == FinishedAfterUpdate
            k == Min(Len(fin), unused_capacity - Len(unused))
        IN /\ unused' = unused \o [j \in 1..k |-> fin[j].seq]
           /\ \A j \in 1..k : fin[j] \notin Entries(sequences')
           /\ \A j \in (k + 1)..Len(fin) : fin[j] \in Entries(sequences')
           /\ \A i \in 1..Len(Updated) :
                ~finished(Updated[i].seq) => Updated[i] \in Entries(sequences')
           /\ Len(sequences') = Len(sequences) - k
           /\ dropped' = dropped]_vars

\* C4 witness: the ring is full of handed-over sequences and a sequence that
\* finished by itself is live again, because the ring had no room for it.
C4_Witness ==
    /\ Len(unused) = unused_capacity
    /\ \E q \in Live : finished(q) /\ q.clean
    /\ dropped = {}

-----------------------------------------------------------------------------
(* Claims about LoopSound *)

IsLoop(q) == q.loop.sound # NoSound

\* The tempo, loop start and loop end of a loop, in the claims' words: the
\* sound's authored tempo if it has one, else the metronome's tempo when
\* LoopSound was run; an unset start is 0 seconds; an unset end is the semantic
\* duration if the sound has one, else its duration.
GoverningTempo(l) ==
    IF l.sound.tempo # None THEN l.sound.tempo[1] ELSE l.tempo

InSeconds(d, bpm) ==
    CASE d.unit = "Seconds" -> d.v
      [] d.unit = "Beats" -> (d.v * 60) \div bpm

ResolvedStart(l) ==
    IF l.loop_settings.start = None
    THEN 0
    ELSE InSeconds(l.loop_settings.start[1], GoverningTempo(l))

ResolvedEnd(l) ==
    IF l.loop_settings.end # None
    THEN InSeconds(l.loop_settings.end[1], GoverningTempo(l))
    ELSE IF l.sound.semantic_duration # None
         THEN InSeconds(l.sound.semantic_duration[1], GoverningTempo(l))
         ELSE l.sound.duration

\* what a PlaySound command says, without its history fields
Play(sound, settings) == [kind |-> "PlaySound", sound |-> sound, settings |-> settings]

Said(c) == [kind |-> c.kind, sound |-> c.sound, settings |-> c.settings]

\* the commands a sequence output in the last update, in order
OutOf(cmds, uid) ==
    LET mine == SelectSeq(cmds, LAMBDA c : c.owner = uid)
    IN [i \in 1..Len(mine) |-> Said(mine[i])]

\* The plays of a loop in the tick t seconds after LoopSound was run: the play
\* from position p at 0, and a play from s at (e - p) + k * (e - s)
TimelineAt(l, t) ==
    LET p == l.instance_settings.position
        s == ResolvedStart(l)
        e == ResolvedEnd(l)
    IN (IF t = 0 THEN <<Play(l.sound, l.instance_settings)>> ELSE <<>>)
       \o (IF t >= e - p /\ (t - (e - p)) % (e - s) = 0
           THEN <<Play(l.sound, [l.instance_settings EXCEPT !.position = s])>>
           ELSE <<>>)

\* C5: a loop that was never paused or stopped outputs, in the tick t seconds
\* after LoopSound was run, exactly the plays of its timeline: PlaySound from
\* position p at 0, PlaySound from s at (e - p) + k * (e - s), every other
\* instance setting as given to LoopSound.
C5_LoopTimeline ==
    [][Update =>
        \A i \in 1..Len(sequences) :
            LET q == sequences[i].seq
            IN (IsLoop(q) /\ q.clean /\ q.state = "Playing")
                 => OutOf(out', q.uid) = TimelineAt(q.loop, q.age)]_vars

\* C5 witness: a loop started from position 1 whose second looped play was
\* just output.
C5_Witness ==
    \E q \in Live :
        /\ IsLoop(q) /\ q.clean
        /\ q.loop.instance_settings.position = 1
        /\ q.age - 1 = (ResolvedEnd(q.loop) - 1)
                        + (ResolvedEnd(q.loop) - ResolvedStart(q.loop))
        /\ OutOf(out, q.uid) # <<>>

\* The loop of the scenario: a 4 s sound authored at 120 BPM with a semantic
\* duration of 8 beats, looped from beat 2 to beat 6, first played from 0
ScenarioLoop(q) ==
    /\ q.loop.sound = SoundA
    /\ q.loop.loop_settings = LoopSettings(Some(Beats(2)), Some(Beats(6)))
    /\ q.loop.instance_settings.position = 0

LoopedPlay(q) == Play(q.loop.sound, [q.loop.instance_settings EXCEPT !.position = 1])

Has(cmds, c) == \E i \in 1..Len(cmds) : cmds[i] = c

\* C6 as claimed: the first looped play of the scenario's loop begins at 2 s and
\* the next at 4 s, both from position 1 s.
C6_Claimed ==
    [][Update =>
        \A i \in 1..Len(sequences) :
            LET q == sequences[i].seq
            IN (ScenarioLoop(q) /\ q.clean /\ q.age \in {2, 4})
                 => Has(OutOf(out', q.uid), LoopedPlay(q))]_vars

\* C6 amended: the first looped play of the scenario's loop begins at 3 s (when
\* the play from 0 reaches the loop end) and the next at 5 s, both from
\* position 1 s; looped plays are 2 s apart and there is none at any other time.
C6_LoopScenario ==
    [][Update =>
        \A i \in 1..Len(sequences) :
            LET q == sequences[i].seq
            IN (ScenarioLoop(q) /\ q.clean)
                 => /\ Has(OutOf(out', q.uid), LoopedPlay(q))
                        <=> (q.age >= 3 /\ (q.age - 3) % 2 = 0)
                    /\ q.age \in {3, 5} => OutOf(out', q.uid) = <<LoopedPlay(q)>>]_vars

\* C6 witness: the scenario's loop right after the tick at 5 s, its second
\* looped play just output.
C6_Witness ==
    \E q \in Live :
        /\ ScenarioLoop(q) /\ q.clean /\ q.age = 6
        /\ OutOf(out, q.uid) = <<LoopedPlay(q)>>

\* C7: the tempo of a loop is read when LoopSound is run. For a live loop the
\* update under any tempo is the update under the metronome's tempo, and in a
\* tick in which the metronome's tempo is no longer the one LoopSound read, the
\* plays are those of the timeline resolved with the tempo LoopSound read.
C7_TempoReadOnce ==
    [][/\ \A q \in Live :
            IsLoop(q) => \A t \in Tempos :
                sequence_update(q, <<>>, t) = sequence_update(q, <<>>, tempo)
       /\ Update =>
            \A i \in 1..Len(sequences) :
                LET q == sequences[i].seq
                IN (IsLoop(q) /\ q.clean /\ tempo # q.loop.tempo)
                     => OutOf(out', q.uid) = TimelineAt(q.loop, q.age)]_vars

\* C7 witness: a loop of a sound without authored tempo, its loop points in
\* beats, outputs a looped play after the metronome's tempo was changed.
C7_Witness ==
    \E q \in Live :
        /\ IsLoop(q) /\ q.clean
        /\ q.loop.sound.tempo = None
        /\ q.loop.loop_settings = LoopSettings(Some(Beats(2)), Some(Beats(6)))
        /\ tempo # q.loop.tempo
        /\ q.age - 1 > ResolvedEnd(q.loop)
        /\ OutOf(out, q.uid) # <<>>

\* the loop start and end the built sequence holds: the position of its looped
\* play, and that position plus the wait of the loop
BuiltStart(q) == q.tasks[4].settings.position

BuiltEnd(q) == BuiltStart(q) + q.tasks[5].d.v

IsBeats(o) == o # None /\ o[1].unit = "Beats"

\* C8: beats are converted to seconds with the sound's authored tempo when the
\* sound has one, whatever the metronome's tempo, and with the metronome's
\* tempo at the time of LoopSound only when the sound has none.
C8_BeatsUseGoverningTempo ==
    \A q \in Live :
        IsLoop(q) =>
            LET l == q.loop
                bpm == IF l.sound.tempo = None THEN l.tempo ELSE l.sound.tempo[1]
            IN /\ IsBeats(l.loop_settings.start)
                    => BuiltStart(q) * bpm = l.loop_settings.start[1].v * 60
               /\ IsBeats(l.loop_settings.end)
                    => BuiltEnd(q) * bpm = l.loop_settings.end[1].v * 60
               /\ (l.loop_settings.end = None /\ IsBeats(l.sound.semantic_duration))
                    => BuiltEnd(q) * bpm = l.sound.semantic_duration[1].v * 60

\* C8 witness: a loop in beats of a sound authored at 60 BPM, run while the
\* metronome was at 120 BPM.
C8_Witness ==
    \E q \in Live :
        /\ IsLoop(q)
        /\ q.loop.sound.tempo = Some(60) /\ q.loop.tempo = 120
        /\ IsBeats(q.loop.loop_settings.start)
        /\ IsBeats(q.loop.loop_settings.end)

\* C9: an unset loop start is 0 seconds; an unset loop end is the sound's
\* semantic duration if it has one, else the sound's duration in seconds; a
\* loop start or end that is set is the one used.
C9_UnsetLoopPoints ==
    \A q \in Live :
        IsLoop(q) =>
            LET l == q.loop
            IN /\ l.loop_settings.start = None => BuiltStart(q) = 0
               /\ l.loop_settings.start # None
                    => BuiltStart(q) = InSeconds(l.loop_settings.start[1],
                                                 GoverningTempo(l))
               /\ (l.loop_settings.end = None /\ l.sound.semantic_duration # None)
                    => BuiltEnd(q) = InSeconds(l.sound.semantic_duration[1],
                                               GoverningTempo(l))
               /\ (l.loop_settings.end = None /\ l.sound.semantic_duration = None)
                    => BuiltEnd(q) = l.sound.duration
               /\ l.loop_settings.end # None
                    => BuiltEnd(q) = InSeconds(l.loop_settings.end[1],
                                               GoverningTempo(l))
               /\ q.tasks[2].d = Seconds(BuiltEnd(q) - l.instance_settings.position)

\* C9 witness: a loop with neither start nor end set, of a sound with a
\* semantic duration, started from position 1.
C9_Witness ==
    \E q \in Live :
        /\ IsLoop(q)
        /\ q.loop.loop_settings = LoopSettings(None, None)
        /\ q.loop.sound.semantic_duration # None
        /\ q.loop.instance_settings.position = 1

-----------------------------------------------------------------------------
(* Claims about muting *)

\* a command without its history fields
Command(c) == [kind |-> c.kind, sound |-> c.sound, settings |-> c.settings, x |-> c.x]

\* the commands of a queue in order, and those that are not PlaySound
Commands(queue) == [i \in 1..Len(queue) |-> Command(queue[i])]

IsNotPlaySound(c) == c.kind # "PlaySound"

OtherCommands(queue) == Commands(SelectSeq(queue, IsNotPlaySound))

\* the commands a sequence output in the last update
CommandsOf(cmds, uid) == Commands(SelectSeq(cmds, LAMBDA c : c.owner = uid))

\* The sequence of the scenario: PlaySound(A), Wait(1 s), EmitCustomEvent(E),
\* PlaySound(B); E is the custom event 1
ScenarioTasks ==
    <<PlaySoundTask(SoundA, DefaultSettings), WaitTask(Seconds(1)),
      EmitCustomEventTask(1), PlaySoundTask(SoundB, DefaultSettings)>>

EventE == [kind |-> "EmitCustomEvent", sound |-> NoSound,
           settings |-> DefaultSettings, x |-> 1]

\* C10: MuteSequence leaves the live sequence muted; update outputs no PlaySound
\* command of a sequence that is muted; muted or not, a sequence's update
\* outputs the same other commands in the same tick and leaves the sequence at
\* the same task with the same wait; the scenario's sequence, muted since its
\* start, outputs E in the tick at 1 s and nothing in any other tick.
C10_MutedOutputsNoPlaySound ==
    [][/\ \A i \in 1..Len(out') :
            out'[i].kind = "PlaySound" => ~out'[i].owner_muted
       /\ \A q \in Live' :
            LET m == sequence_update(mute(q), <<>>, tempo')
                u == sequence_update(unmute(q), <<>>, tempo')
            IN /\ Commands(m.queue) = OtherCommands(u.queue)
               /\ [m.seq EXCEPT !.muted = FALSE, !.muted_all = FALSE]
                    = [u.seq EXCEPT !.muted_all = FALSE]
       /\ \A id \in SequenceIds :
            (MuteSequence(id) /\ contains_key(sequences, id))
              => sequences'[index_of(sequences', id)].seq.muted
       /\ Update =>
            \A i \in 1..Len(sequences) :
                LET q == sequences[i].seq
                IN (q.tasks = ScenarioTasks /\ q.clean /\ q.muted /\ q.muted_all)
                     => CommandsOf(out', q.uid)
                          = IF q.age = 1 THEN <<EventE>> ELSE <<>>]_vars

\* C10 witness: the scenario's sequence, muted in every tick since its start,
\* has finished; its last tick, at 1 s, output E and no PlaySound.
C10_Witness ==
    \E q \in Live \cup {unused[i] : i \in 1..Len(unused)} :
        /\ q.tasks = ScenarioTasks
        /\ q.clean /\ q.muted /\ q.muted_all
        /\ finished(q) /\ q.age = 2
        /\ CommandsOf(out, q.uid) = <<EventE>>

-----------------------------------------------------------------------------
(* Claims about the order of the output *)

\* C11 as claimed, in the runs in which no sequence was started under an id
\* that was live: the commands update returns are those of every live
\* sequence, each once and in the order the sequence output them, the
\* sequences in the order they were started (uid counts the starts).
C11_OutputInStartOrder ==
    [][(Update /\ dropped = {}) =>
        /\ \A i \in 1..Len(sequences) :
              CommandsOf(out', sequences[i].seq.uid)
                = Commands(sequence_update(sequences[i].seq, <<>>, tempo).queue)
        /\ \A i \in 1..Len(out') :
              \E k \in 1..Len(sequences) : sequences[k].seq.uid = out'[i].owner
        /\ \A i, j \in 1..Len(out') :
              i < j => out'[i].owner <= out'[j].owner]_vars

-----------------------------------------------------------------------------
(* Claims about the frames of the callback *)

\* C13: each turn of the callback's loop processes the backend once, giving
\* (left, right), and writes one frame of the buffer: with 1 channel its only
\* sample is (left + right) / 2; with 2 or more channels sample 0 is left,
\* sample 1 is right and every other sample of the frame is as it was. A
\* buffer of n frames takes n turns.
C13_FrameWritten ==
    [][/\ framesDone' = framesDone + 1 =>
            /\ Len(frame') = channels
            /\ channels = 1 => 2 * frame'[1] = lastOut'.left + lastOut'.right
            /\ channels >= 2 =>
                  /\ frame'[1] = lastOut'.left
                  /\ frame'[2] = lastOut'.right
                  /\ \A i \in 3..channels : frame'[i] = Untouched
            /\ framesLeft' = framesLeft - 1
       /\ framesLeft' > framesLeft => (framesLeft = 0 /\ framesDone' = 0)
       /\ channels' = channels]_vars

\* C13 witness: a mono frame holding the mean of two different samples.
C13_Witness ==
    /\ channels = 1
    /\ lastOut.left # lastOut.right
    /\ frame = <<(lastOut.left + lastOut.right) \div 2>>
    /\ framesDone = MaxFrames

-----------------------------------------------------------------------------
(* Claims about the instance *)

\* C12: once the instance is Stopped, no command and no per-frame step changes
\* its playback state, and every frame it contributes is (0, 0).
C12_StoppedIsAbsorbing ==
    [][instance.playback = "Stopped" =>
         /\ instance'.playback = "Stopped"
         /\ StepInstance => instance_out' = Silence]_vars

\* C12 witness: the instance is Stopped after a Resume, another command and a
\* per-frame step reached it while it was Stopped.
C12_Witness ==
    /\ instance.playback = "Stopped"
    /\ instance.since_stop = {"resume", "command", "step"}
    /\ instance_out = Silence

-----------------------------------------------------------------------------
(* Claims about the metronome *)

\* the metronome was started at time 0 at 120 BPM and has run since
Since0At120 == metronome.steady /\ metronome.start_tempo = 120

\* an event of the interval of whole.eighths beats, emitted at time whole
\* seconds and eighths of a second
EventAt(interval, seconds) ==
    [interval |-> interval, time |-> seconds]

Emitted == [i \in 1..Len(interval_events) |->
              EventAt(interval_events[i].interval, interval_events[i].time)]

-----------------------------------------------------------------------------
(* Claims about the ownership of the sequences *)

\* the sequences in the map, on the ring of unused sequences, and taken from it
LiveUids == {sequences[i].seq.uid : i \in 1..Len(sequences)}

UnusedUids == {unused[i].uid : i \in 1..Len(unused)}

\* C15: every sequence ever handed to the pool is still in the live set or has
\* been pushed onto the ring of unused sequences (and is on it or was taken
\* from it by the control thread); none is dropped on the audio thread, also
\* when StartSequence or LoopSound is run with an id that is still live.
C15_NoneDropped ==
    \A u \in 1..started : u \in LiveUids \cup UnusedUids \cup popped

\* a sequence that finished by itself and is in the live set: update found the
\* ring full and put it back
KeptFinished(u) ==
    \E i \in 1..Len(sequences) :
        /\ sequences[i].seq.uid = u
        /\ finished(sequences[i].seq)
        /\ sequences[i].seq.clean

\* the sequence has been pushed onto the ring of unused sequences
PushedUnused(u) == u \in UnusedUids \cup popped

\* update can go on: no sequence has reached the end of the time of the run
UpdateGoesOn == \A i \in 1..Len(sequences) : sequences[i].seq.age < MaxTime

\* no sequence is on the ring twice, or on the ring and taken from it, or on
\* the ring (or taken from it) and still live
PushedAtMostOnce ==
    /\ \A i, j \in 1..Len(unused) : unused[i].uid = unused[j].uid => i = j
    /\ UnusedUids \cap popped = {}
    /\ LiveUids \cap (UnusedUids \cup popped) = {}

\* C16: a finished sequence that is in the live set because the ring was full
\* is retried in every later update: while updates go on and the control
\* thread drains the ring, it is eventually pushed onto the ring; and no
\* sequence is pushed twice.
C16_KeptIsEventuallyPushed ==
    /\ \A u \in 1..MaxOrdered :
         ([]<>UpdateGoesOn) => (KeptFinished(u) ~> PushedUnused(u))
    /\ []PushedAtMostOnce

-----------------------------------------------------------------------------
(* Claims about the capacities *)

\* the ids the first loop of the next update collects
ToRemove == update_sequences(sequences, 1, <<>>, <<>>, tempo).to_remove

\* C17: the live set never holds more than sequence_capacity sequences, the
\* list of sequences to remove in one tick never more than sequence_capacity
\* ids, and the commands output in one tick are never more than
\* command_capacity: no container sized in Sequences::new has to grow.
C17_WithinCapacity ==
    /\ Len(sequences) <= sequence_capacity
    /\ Len(ToRemove) <= sequence_capacity
    /\ Len(out) <= command_capacity

-----------------------------------------------------------------------------
(* Claims about the commands of the pool *)

\* the entry lives on: the same sequence is in the map under the same id
LivesOn(e) ==
    \E j \in 1..Len(sequences') :
        /\ sequences'[j].id = e.id
        /\ sequences'[j].seq.uid = e.seq.uid
        /\ ~finished(sequences'[j].seq)

\* the step runs StartSequence or LoopSound with this id
Restarted(id) ==
    started' # started /\ \E j \in 1..Len(sequences') :
                            sequences'[j].id = id /\ sequences'[j].seq.uid = started'

\* the loop has not been pushed onto the ring of unused sequences
NotPushed(e) ==
    \A j \in 1..Len(unused') : unused'[j].uid # e.seq.uid

\* the PlaySound commands among the commands
Plays(cmds) == SelectSeq(cmds, LAMBDA c : c.kind = "PlaySound")

Methods == {"mute", "unmute", "pause", "resume", "stop"}

\* what a sequence is apart from the state the five commands set
Body(q) == [q EXCEPT !.state = "", !.muted = FALSE, !.clean = FALSE, !.age = 0]

\* C19: MuteSequence, UnmuteSequence, PauseSequence, ResumeSequence and
\* StopSequence with an id that is not live leave the pool as it is: the same
\* live ids, every live sequence in the same state, no command output. With a
\* live id they change the sequence with that id only, which stays where it is
\* in the map with its tasks, its position and its timer.
C19_OnlyThatSequence ==
    [][\A id \in SequenceIds, method \in Methods :
          ChangeSequence(id, method) =>
             /\ out' = <<>>
             /\ unused' = unused
             /\ Len(sequences') = Len(sequences)
             /\ \A i \in 1..Len(sequences) :
                   /\ sequences'[i].id = sequences[i].id
                   /\ sequences[i].id # id => sequences'[i] = sequences[i]
                   /\ Body(sequences'[i].seq) = Body(sequences[i].seq)
             /\ ~contains_key(sequences, id) => sequences' = sequences]_vars

\* C19 witness: two live sequences; the one under id 1 has been muted and
\* paused, the one under id 2 is playing, unmuted and untouched.
C19_Witness ==
    /\ Len(sequences) = 2
    /\ \E i, j \in 1..2 :
          /\ sequences[i].id = 1 /\ sequences[j].id = 2
          /\ sequences[i].seq.muted /\ sequences[i].seq.state = "Paused"
          /\ ~sequences[j].seq.muted /\ sequences[j].seq.state = "Playing"
          /\ sequences[j].seq.clean /\ sequences[j].seq.age > 0

-----------------------------------------------------------------------------
(* Claims about the removal of the finished sequences *)

\* the next update in the pool as it is: its first loop and its second loop
FirstLoop == update_sequences(sequences, 1, <<>>, <<>>, tempo)

SecondLoop == remove_finished(FirstLoop.map, FirstLoop.to_remove, unused, {}, FALSE)

\* C20: in every reachable pool, the remove of each id collected by update
\* finds a sequence to unwrap. The collected ids are distinct and in the map;
\* after the second loop every sequence that is not finished is in the map as
\* it was, every finished one is in the map under its id or on the ring, no
\* sequence is gained or lost, and the list of ids to remove is empty.
C20_RemoveAlwaysFinds ==
    LET u == FirstLoop
        r == SecondLoop
    IN /\ ~r.panicked
       /\ \A i, j \in 1..Len(u.to_remove) : u.to_remove[i] = u.to_remove[j] => i = j
       /\ \A i \in 1..Len(u.to_remove) : contains_key(sequences, u.to_remove[i])
       /\ \A i \in 1..Len(u.map) :
             IF finished(u.map[i].seq)
             THEN \/ u.map[i] \in Entries(r.map)
                  \/ u.map[i].seq \in Range(r.ring)
             ELSE u.map[i] \in Entries(r.map)
       /\ Len(r.map) + Len(r.ring) = Len(u.map) + Len(unused)
       /\ r.lost = {}
       /\ r.to_remove = <<>>

\* C20 witness: the last update put finished sequences back because the ring
\* was full, and the next update collects two ids or more, with a sequence
\* that is not finished beside them.
C20_Witness ==
    /\ Len(unused) = unused_capacity
    /\ Len(ToRemove) >= 2
    /\ \E q \in Live : finished(q) /\ q.clean
    /\ \E q \in Live : ~finished(q) /\ q.age > 0


=============================================================================
